---- MODULE Spec2Model ----
(***************************************************************************)
(* Model of the Work Manager scheduler of parallel-processor-rs           *)
(* (execution_manager/work_manager.rs): executor registration, packet     *)
(* routing through add_input_packet, and the find_work loop run by each   *)
(* worker thread, one atomic step per access to a shared structure; and   *)
(* of the k-mer transform (pipeline_common/kmers_transform/mod.rs): the   *)
(* worker loop of parallel_kmers_transform over its three queues and its  *)
(* two current-bucket slots.                                              *)
(***************************************************************************)
EXTENDS Integers, Sequences, FiniteSets, TLC

\* ---------------------------------------------------------------- bounds
MaxAdds == 3            \* external add_input_packet calls explored
PoolCapacity == 2       \* PoolAllocMode::Shared { capacity }
QueueCap == 1           \* executor_buffer_capacity of WorkManager::new
MaxTimeouts == 3        \* condvar timeouts counted after shutdown
MaxPending == 4         \* pending_packets_count values explored
ExecutorsMaxCount == 1  \* ExecutorAllocMode::Fixed(count) of every stage
MaxFiles == 2           \* input files of a KmersTransform
MaxThreads == 2         \* threads_count values explored: 0..MaxThreads
MaxChunks == 2          \* chunks a bucket reader hands out

\* ------------------------------------------------------------- constants
U64Wrap == 2147483647   \* stands for 2^64 - 1, the value 0 - 1 wraps to

Workers == {"w1", "w2"}
Types == {"SingleUnit", "MultipleUnits", "MultipleCommonPacketUnits"}
Addresses == {"a1", "a2", "a3"}
None == "none"

\* The streams the pipeline routes: two addresses of the MultipleUnits stage
\* and one of either the SingleUnit or the MultipleCommonPacketUnits stage.
AddressPlans ==
    { [a \in Addresses |-> IF a = "a3" THEN t ELSE "MultipleUnits"] :
        t \in {"SingleUnit", "MultipleCommonPacketUnits"} }

\* A pool built elastic: exhaustion allocates a fresh packet.
PoolStrict_elastic == FALSE

\* PacketsPool::new(capacity, true, pool_init_data): the strict flag.
PoolStrict == TRUE

VARIABLES
    address_type,           \* address -> its executor_type_id
    phase,                  \* "setup" (registration) or "running"
    aborted,                \* a panic has terminated the process
    execution_managers_info,\* set of registered executor types
    packets_map,            \* weak address -> input queue (sequence of packets)
    waiting_addresses,      \* type -> FIFO of addresses
    duplicable_executors,   \* FIFO of weak addresses
    pending_packets_count,  \* the AtomicU64
    executor_keeper,        \* address -> first instance exists
    pool_outstanding,       \* packets of the producer's pool not in the pool
    ppc, paddr, ppkt,       \* producer thread inside add_input_packet
    pc,                     \* worker -> position inside find_work
    last_executor,          \* worker -> address of its executor, or None
    cur,                    \* worker -> address being allocated for
    path,                   \* worker -> "dup" or "fair": caller of alloc_executor
    pkt,                    \* worker -> packet it holds (0: none)
    packets_in,             \* history: external add_input_packet calls
    packets_out,            \* history: packets returned by find_work
    deq,                    \* history: address -> packets popped for delivery
    opener,                 \* history: address -> packets taken by allocate_new_group
    registrations,          \* history: type -> add_executors calls (capped at 2)
    timeouts,               \* history: worker -> timeouts since shutdown
    count_timeouts,         \* whether the timeouts history is kept
    output_pool,            \* types whose ExecutionManagerInfo.output_pool is Some
    may_start_unwired,      \* whether the builder may start with an output unset
    group_output,           \* address -> output_pool captured by its group, or None
    groups,                 \* history: address -> allocate_new_group calls
    emitted,                \* history: packets handed to the downstream sink
    queued_addr,            \* packet -> the address pushed with it, or None
    file_inputs,            \* KmersTransform: number of input files
    threads_count,          \* argument of parallel_kmers_transform
    files_queue,            \* ArrayQueue of input paths
    current_bucket,         \* Weak to the bucket being read, NoBucket if none
    current_resplit_bucket, \* the same for the bucket being resplit
    process_queue,          \* SegQueue of ProcessQueueItem
    reprocess_queue,        \* SegQueue of paths to resplit
    write_lock,             \* slot -> thread holding its RwLock for writing
    bucket_strong,          \* bucket -> threads holding an Arc to it
    reader_left,            \* bucket -> chunks its reader has not handed out
    t_pc,                   \* thread -> position in the worker closure
    t_slot,                 \* thread -> slot get_current_bucket works on
    t_bucket,               \* thread -> bucket it holds or is creating
    t_item,                 \* thread -> ProcessQueueItem it popped
    created,                \* history: path -> buckets opened on it (capped)
    finalized,              \* history: thread -> finalize calls (capped)
    transform_phase         \* "absent", "new", "called" or "returned"

\* ExecutorAddress::executor_type_id
executor_type_id(a) == address_type[a]

\* Executor::can_split of an instance bound to address a.
can_split(a) == executor_type_id(a) # "SingleUnit"

vars == <<address_type, phase, aborted, execution_managers_info, packets_map,
          waiting_addresses, duplicable_executors, pending_packets_count,
          executor_keeper, pool_outstanding, ppc, paddr, ppkt, pc,
          last_executor, cur, path, pkt, packets_in, packets_out, deq,
          opener, registrations, timeouts, count_timeouts, output_pool,
          may_start_unwired, group_output, groups, emitted, queued_addr,
          file_inputs, threads_count, files_queue, current_bucket,
          current_resplit_bucket, process_queue, reprocess_queue,
          write_lock, bucket_strong, reader_left, t_pc, t_slot, t_bucket,
          t_item, created, finalized, transform_phase>>

shared == <<packets_map, waiting_addresses, duplicable_executors,
            pending_packets_count, executor_keeper, pool_outstanding>>
setupv == <<address_type, count_timeouts, phase, aborted,
           execution_managers_info>>
prodv == <<ppc, paddr, ppkt, packets_in>>
hist == <<packets_out, deq, opener, registrations, timeouts, queued_addr>>
wiring == <<output_pool, may_start_unwired>>
alloch == <<group_output, groups>>

\* The fields of KmersTransform and the locals of its worker threads.
kmers == <<file_inputs, threads_count, files_queue, current_bucket,
           current_resplit_bucket, process_queue, reprocess_queue,
           write_lock, bucket_strong, reader_left, t_pc, t_slot, t_bucket,
           t_item, created, finalized, transform_phase>>
\* The fields of WorkManager and the locals of its threads.
work_manager == <<address_type, phase, aborted, execution_managers_info,
                  packets_map, waiting_addresses, duplicable_executors,
                  pending_packets_count, executor_keeper, pool_outstanding,
                  ppc, paddr, ppkt, pc, last_executor, cur, path, pkt,
                  packets_in, packets_out, deq, opener, registrations,
                  timeouts, count_timeouts, output_pool, may_start_unwired,
                  group_output, groups, emitted, queued_addr>>

\* ------------------------------------------------------------- helpers
Min(x, y) == IF x < y THEN x ELSE y

\* A fetch_sub that leaves the counter as it is.
FetchSub_none(x) == x

\* A fetch_add that leaves the counter as it is.
FetchAdd_none(x) == x

\* AtomicU64::fetch_add / fetch_sub
FetchAdd(x) == IF x = U64Wrap THEN 0 ELSE x + 1
FetchSub(x) == IF x = 0 THEN U64Wrap ELSE x - 1

\* ArrayQueue::push succeeds only below capacity.
QueueFull(q) == Len(q) >= QueueCap

\* get_packet_from_addr: the packet at the head of the address's queue, 0 if
\* the address has no queue or the queue is empty.
get_packet_from_addr(a) ==
    IF a \in DOMAIN packets_map /\ packets_map[a] # <<>>
    THEN Head(packets_map[a]) ELSE 0

\* A get_packet_from_addr that reads the head and leaves it in the queue.
PoppedMap_peek(a) == packets_map

\* The map after get_packet_from_addr(a) popped.
PoppedMap(a) ==
    IF a \in DOMAIN packets_map /\ packets_map[a] # <<>>
    THEN [packets_map EXCEPT ![a] = Tail(@)] ELSE packets_map

\* entry(a).or_insert_with(..).push(p)
PushedMap(a, p) ==
    [x \in DOMAIN packets_map \cup {a} |->
        IF x = a
        THEN (IF a \in DOMAIN packets_map THEN packets_map[a] ELSE <<>>) \o <<p>>
        ELSE packets_map[x]]

\* line 220: the queue slot holds the pair (address, packet).
Stored(a, p) ==
    [t \in DOMAIN queued_addr |-> IF t = p THEN a ELSE queued_addr[t]]

InSeq(x, s) == \E i \in 1..Len(s) : s[i] = x

\* WeakExecutorAddress::get_strong: the address is still referenced.
get_strong(a) ==
    \/ executor_keeper[a]
    \/ \E t \in Types : InSeq(a, waiting_addresses[t])
    \/ a \in DOMAIN packets_map /\ packets_map[a] # <<>>

\* ObjectsPool::alloc_object on the packet pool: whether a caller gets one.
PoolCanAlloc == pool_outstanding < PoolCapacity \/ ~PoolStrict

\* The stage of stream a3 feeds the MultipleUnits stage, which is the last
\* stage of the pipeline (PoolAllocMode::None): only the former emits.
Emits(t) == t = executor_type_id("a3")

\* Executor objects of type t taken from executors_allocator and not dropped:
\* the executors the workers hold and those being built.
LiveExecutors(t) ==
    Cardinality({w \in Workers : last_executor[w] # None
                                  /\ executor_type_id(last_executor[w]) = t})
    + Cardinality({w \in Workers :
                     /\ pc[w] \in {"alloc_new", "readd_inc", "readd_push",
                                   "alloc_ret", "fair_print"}
                     /\ executor_type_id(cur[w]) = t})

\* ObjectsPool::new(executors_max_count, false, ()): the strict flag.
ExecutorsStrict == FALSE

\* ObjectsPool::alloc_object on executors_allocator: whether a caller gets one.
ExecutorsCanAlloc(t) == LiveExecutors(t) < ExecutorsMaxCount \/ ~ExecutorsStrict

\* A sink that does not look at output_pool.
sink_unchecked(a) == TRUE

\* lines 185-190: output_pool.as_ref().unwrap() of the output_pool the group
\* of address a cloned from its ExecutionManagerInfo when it was created.
sink_unwrap(a) == group_output[a] = "set"

Shutdown ==
    /\ ppc = "idle" /\ packets_in = MaxAdds
    /\ \A a \in DOMAIN packets_map : packets_map[a] = <<>>
    /\ \A w \in Workers : pkt[w] = 0

Tick(w) == IF count_timeouts /\ Shutdown THEN [timeouts EXCEPT ![w] = Min(@ + 1, MaxTimeouts)]
           ELSE timeouts

\* ------------------------------------------------------ KmersTransform
\* The worker threads parallel_kmers_transform can spawn.
Threads == 1..MaxThreads

\* The two RwLock<Weak<BucketProcessData>> slots.
Slots == {"main", "resplit"}

\* Paths: the input files are 1..MaxFiles; Sub(p) is the file that the bucket
\* opened on p writes its reads to (one sub-bucket per bucket here).
Files == 1..MaxFiles
Sub(p) == p + 10
\* A bucket is named by the path it was opened on: an input file for the
\* main slot, a sub-bucket of an input file for the resplit slot.
Buckets == Files \cup {Sub(f) : f \in Files}
NoBucket == 0
NoItem == [file |-> 0, can_resplit |-> FALSE]

\* ---------------------------------------------------------------- Init
\* WorkManager::new, and threads that have not called it yet.
WorkManager_new ==
    /\ phase = "setup"
    /\ aborted = FALSE
    /\ execution_managers_info = {}
    /\ packets_map = [a \in {} |-> <<>>]
    /\ waiting_addresses = [t \in Types |-> <<>>]
    /\ duplicable_executors = <<>>
    /\ pending_packets_count = 0
    /\ executor_keeper = [a \in Addresses |-> FALSE]
    /\ pool_outstanding = 0
    /\ ppc = "idle" /\ paddr = None /\ ppkt = 0
    /\ pc = [w \in Workers |-> "idle"]
    /\ last_executor = [w \in Workers |-> None]
    /\ cur = [w \in Workers |-> None]
    /\ path = [w \in Workers |-> None]
    /\ pkt = [w \in Workers |-> 0]
    /\ packets_in = 0
    /\ packets_out = 0
    /\ deq = [a \in Addresses |-> <<>>]
    /\ opener = [a \in Addresses |-> {}]
    /\ registrations = [t \in Types |-> 0]
    /\ timeouts = [w \in Workers |-> 0]
    /\ queued_addr = [t \in 1..MaxAdds |-> None]
    /\ output_pool = {}
    /\ group_output = [a \in Addresses |-> None]
    /\ groups = [a \in Addresses |-> 0]
    /\ emitted = 0

\* No KmersTransform is constructed.
KmersTransform_absent ==
    /\ file_inputs = 0 /\ threads_count = 0
    /\ files_queue = <<>>
    /\ current_bucket = NoBucket /\ current_resplit_bucket = NoBucket
    /\ process_queue = <<>> /\ reprocess_queue = <<>>
    /\ write_lock = [sl \in Slots |-> 0]
    /\ bucket_strong = [b \in Buckets |-> {}]
    /\ reader_left = [b \in Buckets |-> 0]
    /\ t_pc = [k \in Threads |-> "absent"]
    /\ t_slot = [k \in Threads |-> "main"]
    /\ t_bucket = [k \in Threads |-> NoBucket]
    /\ t_item = [k \in Threads |-> NoItem]
    /\ created = [b \in Buckets |-> 0]
    /\ finalized = [k \in Threads |-> 0]
    /\ transform_phase = "absent"

InitState ==
    /\ address_type \in AddressPlans
    /\ WorkManager_new
    /\ KmersTransform_absent

Init == InitState /\ count_timeouts = FALSE /\ may_start_unwired = FALSE

\* The same program with the timeouts history switched on.
InitCounting == InitState /\ count_timeouts = TRUE /\ may_start_unwired = FALSE

\* The same program under a builder that may start the threads before every
\* emitting stage has its output set.
InitWiring == InitState /\ count_timeouts = FALSE /\ may_start_unwired = TRUE

\* --------------------------------------------------------- registration
\* An add_executors without the assertion of line 204.
not_present_unchecked(t) == TRUE

\* lines 196-199: HashMap::insert returned None.
not_present(t) == t \notin execution_managers_info

\* add_executors::<E>: insert the info, reset the type's waiting queue, then
\* assert that the type was not present.
add_executors(t) ==
    /\ phase = "setup" /\ ~aborted
    /\ execution_managers_info' = execution_managers_info \cup {t}
    /\ waiting_addresses' = [waiting_addresses EXCEPT ![t] = <<>>]
    /\ aborted' = ~not_present(t)
    /\ registrations' = [registrations EXCEPT ![t] = Min(@ + 1, 2)]
    /\ output_pool' = output_pool \ {t}
    /\ UNCHANGED <<kmers, queued_addr, may_start_unwired, alloch, emitted, address_type, count_timeouts, phase, packets_map,
                   duplicable_executors, pending_packets_count,
                   executor_keeper, pool_outstanding, prodv, pc,
                   last_executor, cur, path, pkt, packets_out, deq, opener,
                   timeouts>>

\* set_output, lines 101-107: get(&target_id).unwrap() panics for a type
\* that is not registered; otherwise the info's output_pool becomes Some.
set_output(t) ==
    /\ phase = "setup" /\ ~aborted
    /\ Emits(t) /\ t \notin output_pool
    /\ IF t \in execution_managers_info
       THEN output_pool' = output_pool \cup {t} /\ UNCHANGED aborted
       ELSE aborted' = TRUE /\ UNCHANGED output_pool
    /\ UNCHANGED <<kmers, may_start_unwired, alloch, emitted, address_type,
                   count_timeouts, phase, execution_managers_info, shared,
                   prodv, pc, last_executor, cur, path, pkt, hist>>

\* The thread pool starts its workers once every stage is registered and,
\* unless the builder may start unwired, every emitting stage has its output.
Start ==
    /\ phase = "setup" /\ ~aborted
    /\ execution_managers_info = Types
    /\ may_start_unwired \/ \A t \in Types : Emits(t) => t \in output_pool
    /\ phase' = "running"
    /\ UNCHANGED <<kmers, wiring, alloch, emitted, address_type, count_timeouts, aborted,
                   execution_managers_info, shared, prodv, pc, last_executor,
                   cur, path, pkt, hist>>

\* -------------------------------------------------------------- producer
\* The upstream stage takes an output packet from its pool and calls
\* add_input_packet for address a; line 208: the counter goes up first.
\* The two addresses of the MultipleUnits stage are interchangeable: the one
\* called a1 is the one that receives a packet first.
add_input_packet_inc(a) ==
    /\ phase = "running" /\ ~aborted
    /\ ppc = "idle"
    /\ packets_in < MaxAdds
    /\ a = "a2" => "a1" \in DOMAIN packets_map
    /\ PoolCanAlloc
    /\ pool_outstanding' = pool_outstanding + 1
    /\ pending_packets_count' = FetchAdd(pending_packets_count)
    /\ packets_in' = packets_in + 1
    /\ ppkt' = packets_in + 1
    /\ ppc' = "push" /\ paddr' = a
    /\ UNCHANGED <<kmers, wiring, alloch, emitted, setupv, packets_map, waiting_addresses,
                   duplicable_executors, executor_keeper, pc, last_executor,
                   cur, path, pkt, hist>>

\* An or_insert_with that runs its closure on every call.
entry_vacant_always(a) == TRUE

\* lines 210-213: entry(address.to_weak()) is vacant, so or_insert_with runs
\* its closure (the entry is held locked until the push is done).
entry_vacant(a) == a \notin DOMAIN packets_map

\* A map that releases the entry between or_insert_with and the push.
entry_unlocked == FALSE

\* lines 210-220: the entry returned by DashMap::entry stays locked through
\* or_insert_with and the push on it; no other thread reads the key between.
entry_locked == TRUE

\* add_input_packet, lines 210-225: create the queue (and announce the
\* address) if absent, push; a full queue makes the loop try again, and the
\* new attempt finds the entry occupied.
add_input_packet_push ==
    /\ ~aborted /\ ppc = "push"
    /\ ~(paddr \in DOMAIN packets_map /\ QueueFull(packets_map[paddr]))
    /\ waiting_addresses' =
         IF entry_vacant(paddr)
         THEN [waiting_addresses EXCEPT ![executor_type_id(paddr)] = Append(@, paddr)]
         ELSE waiting_addresses
    /\ IF entry_locked \/ ~entry_vacant(paddr)
       THEN /\ packets_map' = PushedMap(paddr, ppkt)
            /\ queued_addr' = Stored(paddr, ppkt)
            /\ ppc' = "idle" /\ paddr' = None /\ ppkt' = 0
       ELSE /\ packets_map' = [x \in DOMAIN packets_map \cup {paddr} |->
                                 IF x = paddr THEN <<>> ELSE packets_map[x]]
            /\ UNCHANGED <<queued_addr, ppc, paddr, ppkt>>
    /\ UNCHANGED <<kmers, wiring, alloch, emitted, setupv, duplicable_executors, pending_packets_count,
                   executor_keeper, pool_outstanding, packets_in, pc,
                   last_executor, cur, path, pkt, packets_out, deq, opener,
                   registrations, timeouts>>

\* A queue whose failed push keeps the rejected value.
push_err_dropped(p) == 0

\* lines 226-229: a push on a full ArrayQueue hands the value back in
\* Err(val) and the loop takes its packet again from val.1.
push_err(p) == p

\* add_input_packet, lines 210-221 and 226-231: the entry exists and its
\* queue is full, the push fails, address and packet are taken back and the
\* loop goes round (line 208 is outside the loop).
add_input_packet_full ==
    /\ ~aborted /\ ppc = "push"
    /\ paddr \in DOMAIN packets_map /\ QueueFull(packets_map[paddr])
    /\ ppkt' = push_err(ppkt)
    /\ UNCHANGED <<kmers, wiring, alloch, emitted, setupv, shared, ppc, paddr,
                   packets_in, pc, last_executor, cur, path, pkt, hist>>

\* --------------------------------------------------------------- workers
\* The worker loop: the executor processes the packet it was given (dropping
\* it returns it to its pool; an executor of an emitting stage sends one
\* packet to its sink), then find_work is called; line 269.
find_work_call(w) ==
    /\ phase = "running" /\ ~aborted
    /\ pc[w] \in {"idle", "got_none", "run"}
    /\ LET emits == pc[w] = "run" /\ Emits(executor_type_id(last_executor[w]))
       IN IF emits /\ ~sink_unwrap(last_executor[w])
          THEN /\ aborted' = TRUE
               /\ UNCHANGED <<pool_outstanding, pkt, pc, timeouts, emitted>>
          ELSE /\ emitted' = IF emits THEN emitted + 1 ELSE emitted
               /\ pool_outstanding' = IF pc[w] = "run" THEN pool_outstanding - 1
                                      ELSE pool_outstanding
               /\ pkt' = [pkt EXCEPT ![w] = 0]
               /\ pc' = [pc EXCEPT ![w] =
                           IF pending_packets_count = 0 THEN "wait" ELSE "loop"]
               /\ timeouts' = [timeouts EXCEPT ![w] = 0]
               /\ UNCHANGED aborted
    /\ UNCHANGED <<kmers, queued_addr, wiring, alloch, address_type, count_timeouts, phase,
                   execution_managers_info, packets_map, waiting_addresses,
                   duplicable_executors, pending_packets_count,
                   executor_keeper, prodv, last_executor, cur, path,
                   packets_out, deq, opener, registrations>>

\* lines 270-272 and 347-350: wait_for returns on notify or after 100 ms.
find_work_wait(w) ==
    /\ ~aborted /\ pc[w] = "wait"
    /\ pc' = [pc EXCEPT ![w] = "loop"]
    /\ timeouts' = Tick(w)
    /\ UNCHANGED <<kmers, queued_addr, wiring, alloch, emitted, setupv, shared, prodv, last_executor, cur, path, pkt,
                   packets_out, deq, opener, registrations>>

\* line 275: the loop condition; leaving the loop returns None.
find_work_loop(w) ==
    /\ ~aborted /\ pc[w] = "loop"
    /\ pc' = [pc EXCEPT ![w] =
                IF pending_packets_count > 0 THEN "local" ELSE "got_none"]
    /\ UNCHANGED <<kmers, wiring, alloch, emitted, setupv, shared, prodv, last_executor, cur, path, pkt, hist>>

\* An executor that reports the address of the first stream as its own.
strong_addr_fixed(w) == IF last_executor[w] = None THEN None ELSE "a1"

\* lines 280-281: executor.get_address() of last_executor, None if empty.
strong_addr(w) == last_executor[w]

\* lines 280-283: locality, pop from the queue of last_executor's address.
find_work_local(w) ==
    /\ ~aborted /\ pc[w] = "local"
    /\ LET la == strong_addr(w)
           p == IF la = None THEN 0 ELSE get_packet_from_addr(la)
       IN IF p # 0
          THEN /\ packets_map' = PoppedMap(la)
               /\ pkt' = [pkt EXCEPT ![w] = p]
               /\ deq' = [deq EXCEPT ![la] = Append(@, p)]
               /\ pc' = [pc EXCEPT ![w] = "dec"]
          ELSE /\ pc' = [pc EXCEPT ![w] = "dup"]
               /\ UNCHANGED <<packets_map, pkt, deq>>
    /\ UNCHANGED <<kmers, queued_addr, wiring, alloch, emitted, setupv, waiting_addresses, duplicable_executors,
                   pending_packets_count, executor_keeper, pool_outstanding,
                   prodv, last_executor, cur, path, packets_out, opener,
                   registrations, timeouts>>

\* lines 284-286: decrement, notify, return Some(packet).
find_work_return(w) ==
    /\ ~aborted /\ pc[w] = "dec"
    /\ pending_packets_count' = FetchSub(pending_packets_count)
    /\ packets_out' = packets_out + 1
    /\ pc' = [pc EXCEPT ![w] = "run"]
    /\ UNCHANGED <<kmers, queued_addr, wiring, alloch, emitted, setupv, packets_map, waiting_addresses,
                   duplicable_executors, executor_keeper, pool_outstanding,
                   prodv, last_executor, cur, path, pkt, deq, opener,
                   registrations, timeouts>>

\* A pop that reads the head of duplicable_executors and leaves it there.
PoppedDup_kept == duplicable_executors

\* line 294: what SegQueue::pop leaves in duplicable_executors.
PoppedDup == Tail(duplicable_executors)

\* lines 294-297: pop a duplicable address.
find_work_dup_pop(w) ==
    /\ ~aborted /\ pc[w] = "dup"
    /\ IF duplicable_executors = <<>>
       THEN /\ pc' = [pc EXCEPT ![w] = "fair"]
            /\ UNCHANGED <<duplicable_executors, cur, path>>
       ELSE LET a == Head(duplicable_executors) IN
            /\ duplicable_executors' = PoppedDup
            /\ IF ~get_strong(a)
               THEN /\ pc' = [pc EXCEPT ![w] = "dup"]
                    /\ UNCHANGED <<cur, path>>
               ELSE IF last_executor[w] = a
               THEN /\ pc' = [pc EXCEPT ![w] = "dup_own"]
                    /\ cur' = [cur EXCEPT ![w] = a]
                    /\ UNCHANGED path
               ELSE /\ pc' = [pc EXCEPT ![w] = "alloc_get"]
                    /\ cur' = [cur EXCEPT ![w] = a]
                    /\ path' = [path EXCEPT ![w] = "dup"]
    /\ UNCHANGED <<kmers, wiring, alloch, emitted, setupv, packets_map, waiting_addresses,
                   pending_packets_count, executor_keeper, pool_outstanding,
                   prodv, last_executor, pkt, hist>>

\* line 298: the worker's own address goes back.
find_work_dup_own(w) ==
    /\ ~aborted /\ pc[w] = "dup_own"
    /\ duplicable_executors' = Append(duplicable_executors, cur[w])
    /\ cur' = [cur EXCEPT ![w] = None]
    /\ pc' = [pc EXCEPT ![w] = "dup_len"]
    /\ UNCHANGED <<kmers, wiring, alloch, emitted, setupv, packets_map, waiting_addresses,
                   pending_packets_count, executor_keeper, pool_outstanding,
                   prodv, last_executor, path, pkt, hist>>

\* lines 299-304
find_work_dup_len(w) ==
    /\ ~aborted /\ pc[w] = "dup_len"
    /\ pc' = [pc EXCEPT ![w] =
                IF Len(duplicable_executors) = 1 THEN "fair" ELSE "dup"]
    /\ UNCHANGED <<kmers, wiring, alloch, emitted, setupv, shared, prodv, last_executor, cur, path, pkt, hist>>

\* alloc_executor, lines 242-245: a MultipleCommonPacketUnits type pops a
\* packet first; without one alloc_executor returns None, which the
\* duplication path skips (line 308) and the fairness path unwraps (327).
alloc_executor_get(w) ==
    /\ ~aborted /\ pc[w] = "alloc_get"
    /\ LET a == cur[w]
           p == get_packet_from_addr(a)
       IN IF executor_type_id(a) # "MultipleCommonPacketUnits"
          THEN /\ pc' = [pc EXCEPT ![w] = "alloc_call"]
               /\ UNCHANGED <<packets_map, pkt, cur, path, aborted>>
          ELSE IF p # 0
          THEN /\ packets_map' = PoppedMap(a)
               /\ pkt' = [pkt EXCEPT ![w] = p]
               /\ pc' = [pc EXCEPT ![w] = "alloc_call"]
               /\ UNCHANGED <<cur, path, aborted>>
          ELSE IF path[w] = "dup"
          THEN /\ pc' = [pc EXCEPT ![w] = "dup"]
               /\ cur' = [cur EXCEPT ![w] = None]
               /\ path' = [path EXCEPT ![w] = None]
               /\ UNCHANGED <<packets_map, pkt, aborted>>
          ELSE /\ aborted' = TRUE
               /\ UNCHANGED <<packets_map, pkt, pc, cur, path>>
    /\ UNCHANGED <<kmers, wiring, alloch, emitted, address_type, count_timeouts, phase,
                   execution_managers_info, waiting_addresses,
                   duplicable_executors, pending_packets_count,
                   executor_keeper, pool_outstanding, prodv, last_executor,
                   hist>>

\* An allocator that never looks at the keeper slot.
main_executor_ignored(a) == FALSE

\* line 154: the keeper slot of the address holds an instance.
main_executor(a) == executor_keeper[a]

\* allocate_execution_unit, lines 150-159: an executor object is taken from
\* executors_allocator; with an instance in the keeper slot the new one is
\* cloned and the packet is left in place.
allocate_execution_unit(w) ==
    /\ ~aborted /\ pc[w] = "alloc_call"
    /\ ExecutorsCanAlloc(executor_type_id(cur[w]))
    /\ IF main_executor(cur[w])
       THEN /\ pc' = [pc EXCEPT ![w] =
                        IF pkt[w] # 0 THEN "readd_inc" ELSE "alloc_ret"]
       ELSE /\ pc' = [pc EXCEPT ![w] = "alloc_new"]
    /\ UNCHANGED <<kmers, wiring, alloch, emitted, setupv, shared, prodv, last_executor, cur, path, pkt, hist>>

\* allocate_execution_unit, lines 162-191: allocate_new_group takes the
\* packet by value (its buffer goes back to the pool when the group is done
\* with it, here at once), the info's output_pool is cloned for the sink,
\* ExecutionManager::new binds the instance to the address.
allocate_new_group(w) ==
    /\ ~aborted /\ pc[w] = "alloc_new"
    /\ executor_keeper' = [executor_keeper EXCEPT ![cur[w]] = TRUE]
    /\ opener' = [opener EXCEPT ![cur[w]] =
                    IF pkt[w] # 0 THEN @ \cup {pkt[w]} ELSE @]
    /\ pool_outstanding' = IF pkt[w] # 0 THEN pool_outstanding - 1
                           ELSE pool_outstanding
    /\ pkt' = [pkt EXCEPT ![w] = 0]
    /\ pc' = [pc EXCEPT ![w] = "alloc_ret"]
    /\ group_output' = [group_output EXCEPT ![cur[w]] =
                          IF executor_type_id(cur[w]) \in output_pool
                          THEN "set" ELSE "unset"]
    /\ groups' = [groups EXCEPT ![cur[w]] = Min(@ + 1, 2)]
    /\ UNCHANGED <<kmers, queued_addr, wiring, emitted, setupv, packets_map, waiting_addresses,
                   duplicable_executors, pending_packets_count, prodv,
                   last_executor, cur, path, packets_out, deq, registrations,
                   timeouts>>

\* alloc_executor, lines 249-251: the packet left over goes through
\* add_input_packet again; first its fetch_add ...
alloc_executor_readd_inc(w) ==
    /\ ~aborted /\ pc[w] = "readd_inc"
    /\ pending_packets_count < MaxPending
    /\ pending_packets_count' = FetchAdd(pending_packets_count)
    /\ pc' = [pc EXCEPT ![w] = "readd_push"]
    /\ UNCHANGED <<kmers, wiring, alloch, emitted, setupv, packets_map, waiting_addresses,
                   duplicable_executors, executor_keeper, pool_outstanding,
                   prodv, last_executor, cur, path, pkt, hist>>

\* ... then its push, retried while the queue is full.
alloc_executor_readd_push(w) ==
    /\ ~aborted /\ pc[w] = "readd_push"
    /\ ~(cur[w] \in DOMAIN packets_map /\ QueueFull(packets_map[cur[w]]))
    /\ packets_map' = PushedMap(cur[w], pkt[w])
    /\ waiting_addresses' =
         IF entry_vacant(cur[w])
         THEN [waiting_addresses EXCEPT ![executor_type_id(cur[w])] = Append(@, cur[w])]
         ELSE waiting_addresses
    /\ queued_addr' = Stored(cur[w], pkt[w])
    /\ pkt' = [pkt EXCEPT ![w] = 0]
    /\ pc' = [pc EXCEPT ![w] = "alloc_ret"]
    /\ UNCHANGED <<kmers, wiring, alloch, emitted, setupv, duplicable_executors, pending_packets_count,
                   executor_keeper, pool_outstanding, prodv, last_executor,
                   cur, path, packets_out, deq, opener, registrations,
                   timeouts>>

\* ... and a failed attempt of that push (lines 226-231).
alloc_executor_readd_full(w) ==
    /\ ~aborted /\ pc[w] = "readd_push"
    /\ cur[w] \in DOMAIN packets_map /\ QueueFull(packets_map[cur[w]])
    /\ pkt' = [pkt EXCEPT ![w] = push_err(@)]
    /\ UNCHANGED <<kmers, wiring, alloch, emitted, setupv, shared, prodv, pc,
                   last_executor, cur, path, hist>>

\* A fairness path that announces every new executor as duplicable.
can_split_skipped(a) == TRUE

\* lines 329-332: only an executor that reports can_split() is announced.
can_split_checked(a) == can_split(a)

\* lines 308-318 (duplication) and 327-332 (fairness): the executor is back.
find_work_alloc_ret(w) ==
    /\ ~aborted /\ pc[w] = "alloc_ret"
    /\ IF path[w] = "dup"
       THEN /\ duplicable_executors' = Append(duplicable_executors, cur[w])
            /\ last_executor' = [last_executor EXCEPT ![w] = cur[w]]
            /\ cur' = [cur EXCEPT ![w] = None]
            /\ path' = [path EXCEPT ![w] = None]
            /\ pc' = [pc EXCEPT ![w] = "loop"]
       ELSE /\ duplicable_executors' =
                 IF can_split_checked(cur[w])
                 THEN Append(duplicable_executors, cur[w])
                 ELSE duplicable_executors
            /\ pc' = [pc EXCEPT ![w] = "fair_print"]
            /\ UNCHANGED <<last_executor, cur, path>>
    /\ UNCHANGED <<kmers, wiring, alloch, emitted, setupv, packets_map, waiting_addresses,
                   pending_packets_count, executor_keeper, pool_outstanding,
                   prodv, pkt, hist>>

\* lines 334-343: the println evaluates get_packet_from_addr on the address
\* of the previous executor and keeps only is_some(): the packet popped is
\* discarded, which returns it to its pool.  Then last_executor is replaced.
find_work_fair_print(w) ==
    /\ ~aborted /\ pc[w] = "fair_print"
    /\ LET la == last_executor[w]
           p == IF la = None THEN 0 ELSE get_packet_from_addr(la)
       IN IF p # 0
          THEN /\ packets_map' = PoppedMap(la)
               /\ pool_outstanding' = pool_outstanding - 1
          ELSE UNCHANGED <<packets_map, pool_outstanding>>
    /\ last_executor' = [last_executor EXCEPT ![w] = cur[w]]
    /\ cur' = [cur EXCEPT ![w] = None]
    /\ path' = [path EXCEPT ![w] = None]
    /\ pc' = [pc EXCEPT ![w] = "loop"]
    /\ UNCHANGED <<kmers, wiring, alloch, emitted, setupv, waiting_addresses, duplicable_executors,
                   pending_packets_count, executor_keeper, prodv, pkt, hist>>

\* lines 321-326: pop from the first non-empty waiting queue in the map's
\* iteration order (unspecified for a HashMap); none: go idle.
find_work_fair_pop(w) ==
    /\ ~aborted /\ pc[w] = "fair"
    /\ IF \A t \in Types : waiting_addresses[t] = <<>>
       THEN /\ pc' = [pc EXCEPT ![w] = "wait"]
            /\ UNCHANGED <<waiting_addresses, cur, path>>
       ELSE \E t \in Types :
            /\ waiting_addresses[t] # <<>>
            /\ waiting_addresses' = [waiting_addresses EXCEPT ![t] = Tail(@)]
            /\ cur' = [cur EXCEPT ![w] = Head(waiting_addresses[t])]
            /\ path' = [path EXCEPT ![w] = "fair"]
            /\ pc' = [pc EXCEPT ![w] = "alloc_get"]
    /\ UNCHANGED <<kmers, wiring, alloch, emitted, setupv, packets_map, duplicable_executors,
                   pending_packets_count, executor_keeper, pool_outstanding,
                   prodv, last_executor, pkt, hist>>

find_work(w) ==
    \/ find_work_call(w)
    \/ find_work_wait(w)
    \/ find_work_loop(w)
    \/ find_work_local(w)
    \/ find_work_return(w)
    \/ find_work_dup_pop(w)
    \/ find_work_dup_own(w)
    \/ find_work_dup_len(w)
    \/ alloc_executor_get(w)
    \/ allocate_execution_unit(w)
    \/ allocate_new_group(w)
    \/ alloc_executor_readd_inc(w)
    \/ alloc_executor_readd_push(w)
    \/ alloc_executor_readd_full(w)
    \/ find_work_alloc_ret(w)
    \/ find_work_fair_print(w)
    \/ find_work_fair_pop(w)

Next ==
    \/ \E t \in Types : add_executors(t)
    \/ \E t \in Types : set_output(t)
    \/ Start
    \/ \E a \in Addresses : add_input_packet_inc(a)
    \/ add_input_packet_push
    \/ add_input_packet_full
    \/ \E w \in Workers : find_work(w)

Spec == Init /\ [][Next]_vars

CountingSpec == InitCounting /\ [][Next]_vars

WiringSpec == InitWiring /\ [][Next]_vars

\* Worker threads and a producer inside add_input_packet keep running; new
\* inputs are never forced.
FairSpec ==
    /\ Spec
    /\ WF_vars(add_input_packet_push)
    /\ \A w \in Workers : WF_vars(find_work(w))

\* ---------------------------------------------- KmersTransform: threads
kconf == <<file_inputs, threads_count>>
kqueues == <<files_queue, process_queue, reprocess_queue>>
kslots == <<current_bucket, current_resplit_bucket, write_lock>>
kbuckets == <<bucket_strong, reader_left, created>>
klocal == <<t_slot, t_bucket, t_item>>

\* KmersTransform::new, lines 111-135: every input file is pushed on
\* files_queue (an ArrayQueue of capacity file_inputs.len(), which must be
\* positive), the two slots hold Weak::new(), the other queues are empty.
KmersTransform_new(n) ==
    /\ file_inputs = n /\ threads_count = 0
    /\ files_queue = [i \in 1..n |-> i]
    /\ current_bucket = NoBucket /\ current_resplit_bucket = NoBucket
    /\ process_queue = <<>> /\ reprocess_queue = <<>>
    /\ write_lock = [sl \in Slots |-> 0]
    /\ bucket_strong = [b \in Buckets |-> {}]
    /\ reader_left = [b \in Buckets |-> 0]
    /\ t_pc = [k \in Threads |-> "absent"]
    /\ t_slot = [k \in Threads |-> "main"]
    /\ t_bucket = [k \in Threads |-> NoBucket]
    /\ t_item = [k \in Threads |-> NoItem]
    /\ created = [b \in Buckets |-> 0]
    /\ finalized = [k \in Threads |-> 0]
    /\ transform_phase = "new"

\* A KmersTransform built on 1..MaxFiles input files; no WorkManager is used.
KmersInit ==
    /\ address_type = [a \in Addresses |-> "MultipleUnits"]
    /\ WorkManager_new
    /\ count_timeouts = FALSE /\ may_start_unwired = FALSE
    /\ \E n \in 1..MaxFiles : KmersTransform_new(n)

\* buckets_count, the constructor argument: the number of input buckets
\* (do_logging, line 146, subtracts files_queue.len() from it).
buckets_count == file_inputs

\* line 349: for _ in 0..min(self.buckets_count, threads_count)
spawn_count(tc) == Min(buckets_count, tc)

\* parallel_kmers_transform, lines 344-358: the threads are spawned, each
\* with its executor, resplitter and buffer, and enter the loop of line 360.
parallel_kmers_transform(tc) ==
    /\ transform_phase = "new"
    /\ transform_phase' = "called"
    /\ threads_count' = tc
    /\ t_pc' = [k \in Threads |->
                  IF k <= spawn_count(tc) THEN "process_buffers" ELSE "absent"]
    /\ UNCHANGED <<work_manager, file_inputs, kqueues, kslots, kbuckets,
                   klocal, finalized>>

CurrentOf(sl) ==
    IF sl = "main" THEN current_bucket ELSE current_resplit_bucket

\* BucketProcessData::reader.is_finished()
is_finished(b) == reader_left[b] = 0

\* get_valid_bucket, lines 177-186: the Weak upgrades and the reader is not
\* finished; NoBucket stands for None.
get_valid_bucket(b) ==
    IF b # NoBucket /\ bucket_strong[b] # {} /\ ~is_finished(b)
    THEN b ELSE NoBucket

\* Where the caller of get_current_bucket goes with Some(bucket): read_bucket
\* (line 397) or the decode loop of resplit_buckets (line 275).
AfterSome(sl) == IF sl = "main" THEN "read_bucket" ELSE "resplit_decode"

\* process_buffers, lines 310-314: pop an item; with none the function
\* returns and resplit_buckets calls get_current_bucket on the resplit slot
\* (line 257).
process_buffers_pop(k) ==
    /\ t_pc[k] = "process_buffers"
    /\ IF process_queue = <<>>
       THEN /\ t_pc' = [t_pc EXCEPT ![k] = "gcb_read"]
            /\ t_slot' = [t_slot EXCEPT ![k] = "resplit"]
            /\ UNCHANGED <<process_queue, t_item>>
       ELSE /\ t_item' = [t_item EXCEPT ![k] = Head(process_queue)]
            /\ process_queue' = Tail(process_queue)
            /\ t_pc' = [t_pc EXCEPT ![k] = "process_item"]
            /\ UNCHANGED t_slot
    /\ UNCHANGED <<work_manager, kconf, files_queue, reprocess_queue, kslots,
                   kbuckets, t_bucket, finalized, transform_phase>>

\* process_buffers, lines 316-340: an item that is no outlier, or cannot be
\* resplit, or is small, is processed (and its file removed); any other has
\* its path pushed on reprocess_queue.  The sizes are inputs.
process_buffers_item(k) ==
    /\ t_pc[k] = "process_item"
    /\ \E is_outlier, is_small \in BOOLEAN :
          reprocess_queue' =
             IF ~is_outlier \/ ~t_item[k].can_resplit \/ is_small
             THEN reprocess_queue
             ELSE Append(reprocess_queue, t_item[k].file)
    /\ t_item' = [t_item EXCEPT ![k] = NoItem]
    /\ t_pc' = [t_pc EXCEPT ![k] = "process_buffers"]
    /\ UNCHANGED <<work_manager, kconf, files_queue, process_queue, kslots,
                   kbuckets, t_slot, t_bucket, finalized, transform_phase>>

\* The thread takes an Arc to bucket b and get_current_bucket returns it.
ReturnSome(k, b) ==
    /\ bucket_strong' = [bucket_strong EXCEPT ![b] = @ \cup {k}]
    /\ t_bucket' = [t_bucket EXCEPT ![k] = b]
    /\ t_pc' = [t_pc EXCEPT ![k] = AfterSome(t_slot[k])]

\* get_current_bucket, lines 189-195: under the read lock, return the
\* current bucket if it is valid.
get_current_bucket_read(k) ==
    /\ t_pc[k] = "gcb_read"
    /\ write_lock[t_slot[k]] = 0
    /\ LET b == get_valid_bucket(CurrentOf(t_slot[k]))
       IN IF b # NoBucket
          THEN ReturnSome(k, b)
          ELSE /\ t_pc' = [t_pc EXCEPT ![k] = "gcb_write"]
               /\ UNCHANGED <<bucket_strong, t_bucket>>
    /\ UNCHANGED <<work_manager, kconf, kqueues, kslots, reader_left, created,
                   t_slot, t_item, finalized, transform_phase>>

\* An RwLock whose write() does not wait for the holder.
can_write_always(sl) == TRUE

\* RwLock::write: granted when no thread holds the lock (read guards last
\* one step here).
can_write(sl) == write_lock[sl] = 0

\* get_current_bucket, line 196: take the write lock.
get_current_bucket_write(k) ==
    /\ t_pc[k] = "gcb_write"
    /\ can_write(t_slot[k])
    /\ write_lock' = [write_lock EXCEPT ![t_slot[k]] = k]
    /\ t_pc' = [t_pc EXCEPT ![k] = "gcb_recheck"]
    /\ UNCHANGED <<work_manager, kconf, kqueues, current_bucket,
                   current_resplit_bucket, kbuckets, klocal, finalized,
                   transform_phase>>

\* get_current_bucket, lines 198-200: the check again, now under the write
\* lock.
get_current_bucket_recheck(k) ==
    /\ t_pc[k] = "gcb_recheck"
    /\ LET b == get_valid_bucket(CurrentOf(t_slot[k]))
       IN IF b # NoBucket
          THEN /\ ReturnSome(k, b)
               /\ write_lock' = [write_lock EXCEPT ![t_slot[k]] = 0]
          ELSE /\ t_pc' = [t_pc EXCEPT ![k] = "gcb_alloc"]
               /\ UNCHANGED <<bucket_strong, t_bucket, write_lock>>
    /\ UNCHANGED <<work_manager, kconf, kqueues, current_bucket,
                   current_resplit_bucket, reader_left, created, t_slot,
                   t_item, finalized, transform_phase>>

\* line 202 with the closures of lines 257-258 and 368-369: alloc_fn pops a
\* path from reprocess_queue or files_queue; with none get_current_bucket
\* returns None: resplit_buckets returns false and the main slot is tried
\* (line 367), or the thread goes to the test of line 384.
alloc_fn_pop(k) ==
    /\ t_pc[k] = "gcb_alloc"
    /\ LET sl == t_slot[k]
           q == IF sl = "main" THEN files_queue ELSE reprocess_queue
       IN IF q = <<>>
          THEN /\ write_lock' = [write_lock EXCEPT ![sl] = 0]
               /\ t_pc' = [t_pc EXCEPT ![k] =
                             IF sl = "main" THEN "check_process" ELSE "gcb_read"]
               /\ t_slot' = [t_slot EXCEPT ![k] = "main"]
               /\ UNCHANGED <<files_queue, reprocess_queue, t_bucket>>
          ELSE /\ t_bucket' = [t_bucket EXCEPT ![k] = Head(q)]
               /\ IF sl = "main"
                  THEN files_queue' = Tail(q) /\ UNCHANGED reprocess_queue
                  ELSE reprocess_queue' = Tail(q) /\ UNCHANGED files_queue
               /\ t_pc' = [t_pc EXCEPT ![k] = "gcb_new"]
               /\ UNCHANGED <<write_lock, t_slot>>
    /\ UNCHANGED <<work_manager, kconf, process_queue, current_bucket,
                   current_resplit_bucket, kbuckets, t_item, finalized,
                   transform_phase>>

\* lines 260-268 and 371-381, then 204-206: BucketProcessData::new_blocking
\* opens the path, the slot gets the Weak of the new bucket, the write lock
\* is released with the return.
new_blocking(k) ==
    /\ t_pc[k] = "gcb_new"
    /\ LET sl == t_slot[k]
           b == t_bucket[k]
       IN /\ created' = [created EXCEPT ![b] = Min(@ + 1, 2)]
          /\ bucket_strong' = [bucket_strong EXCEPT ![b] = {k}]
          /\ reader_left' = [reader_left EXCEPT ![b] = MaxChunks]
          /\ IF sl = "main"
             THEN current_bucket' = b /\ UNCHANGED current_resplit_bucket
             ELSE current_resplit_bucket' = b /\ UNCHANGED current_bucket
          /\ write_lock' = [write_lock EXCEPT ![sl] = 0]
          /\ t_pc' = [t_pc EXCEPT ![k] = AfterSome(sl)]
    /\ UNCHANGED <<work_manager, kconf, kqueues, klocal, finalized,
                   transform_phase>>

\* read_bucket, lines 218-246, and resplit_buckets, lines 275-303: the
\* reader hands out one chunk per call until it is finished.
decode_bucket_items_parallel(k) ==
    /\ t_pc[k] \in {"read_bucket", "resplit_decode"}
    /\ LET b == t_bucket[k]
       IN IF is_finished(b)
          THEN /\ t_pc' = [t_pc EXCEPT ![k] = "drop"]
               /\ UNCHANGED reader_left
          ELSE /\ reader_left' = [reader_left EXCEPT ![b] = @ - 1]
               /\ UNCHANGED t_pc
    /\ UNCHANGED <<work_manager, kconf, kqueues, kslots, bucket_strong,
                   created, klocal, finalized, transform_phase>>

\* The end of the loop body (lines 304-306 with the continue of 364, or
\* line 398): the thread's Arc is dropped; the last Arc drops the
\* BucketProcessData, which hands the file it wrote to process_queue, to be
\* resplit at most once.
drop_bucket(k) ==
    /\ t_pc[k] = "drop"
    /\ LET b == t_bucket[k]
           left == bucket_strong[b] \ {k}
       IN /\ bucket_strong' = [bucket_strong EXCEPT ![b] = left]
          /\ process_queue' =
               IF left = {}
               THEN Append(process_queue,
                           [file |-> Sub(b), can_resplit |-> b \in Files])
               ELSE process_queue
    /\ t_bucket' = [t_bucket EXCEPT ![k] = NoBucket]
    /\ t_pc' = [t_pc EXCEPT ![k] = "process_buffers"]
    /\ UNCHANGED <<work_manager, kconf, files_queue, reprocess_queue, kslots,
                   reader_left, created, t_slot, t_item, finalized,
                   transform_phase>>

\* line 384: process_queue.is_empty(), else continue.
check_process_queue(k) ==
    /\ t_pc[k] = "check_process"
    /\ t_pc' = [t_pc EXCEPT ![k] =
                  IF process_queue = <<>> THEN "check_reprocess"
                  ELSE "process_buffers"]
    /\ UNCHANGED <<work_manager, kconf, kqueues, kslots, kbuckets, klocal,
                   finalized, transform_phase>>

\* lines 385-390: reprocess_queue.is_empty(): break, else continue.
check_reprocess_queue(k) ==
    /\ t_pc[k] = "check_reprocess"
    /\ t_pc' = [t_pc EXCEPT ![k] =
                  IF reprocess_queue = <<>> THEN "finalize"
                  ELSE "process_buffers"]
    /\ UNCHANGED <<work_manager, kconf, kqueues, kslots, kbuckets, klocal,
                   finalized, transform_phase>>

\* line 399: executor.finalize, then the thread ends.
finalize(k) ==
    /\ t_pc[k] = "finalize"
    /\ finalized' = [finalized EXCEPT ![k] = Min(@ + 1, 2)]
    /\ t_pc' = [t_pc EXCEPT ![k] = "done"]
    /\ UNCHANGED <<work_manager, kconf, kqueues, kslots, kbuckets, klocal,
                   transform_phase>>

\* A scope that does not wait for its threads.
scope_joined_detached == TRUE

\* lines 348 and 403-404: crossbeam::thread::scope returns when every
\* spawned thread has ended.
scope_joined == \A k \in Threads : t_pc[k] \in {"absent", "done"}

\* parallel_kmers_transform returns.
parallel_kmers_transform_return ==
    /\ transform_phase = "called"
    /\ scope_joined
    /\ transform_phase' = "returned"
    /\ UNCHANGED <<work_manager, kconf, kqueues, kslots, kbuckets, klocal,
                   t_pc, finalized>>

kmers_transform_thread(k) ==
    \/ process_buffers_pop(k)
    \/ process_buffers_item(k)
    \/ get_current_bucket_read(k)
    \/ get_current_bucket_write(k)
    \/ get_current_bucket_recheck(k)
    \/ alloc_fn_pop(k)
    \/ new_blocking(k)
    \/ decode_bucket_items_parallel(k)
    \/ drop_bucket(k)
    \/ check_process_queue(k)
    \/ check_reprocess_queue(k)
    \/ finalize(k)

KmersNext ==
    \/ \E tc \in 0..MaxThreads : parallel_kmers_transform(tc)
    \/ \E k \in Threads : kmers_transform_thread(k)
    \/ parallel_kmers_transform_return

KmersSpec == KmersInit /\ [][KmersNext]_vars

\* ------------------------------------------------------------ properties
Tickets == 1..packets_in

\* Number of input-queue slots that hold packet t.
RECURSIVE CountIn(_, _)
CountIn(t, q) == IF q = <<>> THEN 0
                 ELSE (IF Head(q) = t THEN 1 ELSE 0) + CountIn(t, Tail(q))

RECURSIVE SumOver(_, _)
SumOver(f, S) == IF S = {} THEN 0
                 ELSE LET x == CHOOSE y \in S : TRUE
                      IN f[x] + SumOver(f, S \ {x})

Queued(t) == SumOver([a \in DOMAIN packets_map |-> CountIn(t, packets_map[a])],
                     DOMAIN packets_map)
Held(t) == Cardinality({w \in Workers : pkt[w] = t})
           + (IF ppkt = t THEN 1 ELSE 0)
Delivered(t) == \E a \in Addresses : InSeq(t, deq[a]) \/ t \in opener[a]

Increasing(q) == \A i, j \in 1..Len(q) : i < j => q[i] < q[j]

\* C1. Conservation: pending_packets_count equals the number of packets that
\* callers put in through add_input_packet minus the number of packets that
\* find_work returned, in every reachable state.
C1_Conservation == pending_packets_count = packets_in - packets_out

\* C4. No double-delivery: every packet find_work hands out was put in by one
\* earlier add_input_packet call, and no packet is handed out twice, whatever
\* the number of workers popping from the same queue.
C4_NoDoubleDelivery ==
    \A a \in Addresses : \A i \in 1..Len(deq[a]) :
        /\ deq[a][i] \in Tickets
        /\ \A b \in Addresses : \A j \in 1..Len(deq[b]) :
              (a # b \/ i # j) => deq[a][i] # deq[b][j]

\* C4 witness: two workers whose executors are bound to the same address each
\* hold a different packet that find_work returned from that address's queue.
C4_Witness ==
    \E w, v \in Workers :
        /\ w # v /\ pc[w] = "run" /\ pc[v] = "run"
        /\ last_executor[w] = last_executor[v]
        /\ pkt[w] # 0 /\ pkt[v] # 0 /\ pkt[w] # pkt[v]

\* C5. Packet location: every packet put in is in exactly one input-queue slot
\* or with exactly one holder (the producer pushing it, a worker's executor),
\* or it left the queues by being handed to an executor or to the group it
\* opened; no step takes a packet out of a queue and discards it.
C5_PacketLocation ==
    \A t \in Tickets :
        \/ Queued(t) + Held(t) = 1
        \/ Queued(t) + Held(t) = 0 /\ Delivered(t)

\* C6. Shutdown: once the producers are done, every queue is empty and no
\* worker holds a packet, a find_work call in progress sits through at most
\* two condvar timeouts before it returns None.
C6_Shutdown == \A w \in Workers : timeouts[w] <= 2

\* C7. Group-opening: for a MultipleCommonPacketUnits address, the first
\* allocation takes exactly one packet (the opener) and no later allocation
\* for the address takes another; other kinds take none.
C7_GroupOpening ==
    \A a \in Addresses :
        Cardinality(opener[a]) =
            IF executor_type_id(a) = "MultipleCommonPacketUnits" /\ executor_keeper[a]
            THEN 1 ELSE 0

\* C7 witness: a later allocation for a MultipleCommonPacketUnits address
\* whose group was opened has completed on the duplication path and the
\* packet it looked at is back in the address's queue.
C7_Witness ==
    \E w \in Workers :
        /\ pc[w] = "alloc_ret" /\ path[w] = "dup"
        /\ executor_type_id(cur[w]) = "MultipleCommonPacketUnits"
        /\ Cardinality(opener[cur[w]]) = 1
        /\ packets_map[cur[w]] # <<>>

\* C8. Per-address FIFO: the packets find_work hands out for one address come
\* in the order in which the producer's add_input_packet calls enqueued them
\* (packets are numbered in that order).
C8_PerAddressFIFO == \A a \in Addresses : Increasing(deq[a])

\* C9. Unique registration: a second add_executors for a registered type
\* aborts the process.
C9_UniqueRegistration ==
    \A t \in Types : registrations[t] >= 2 => aborted

\* C9 witness: a type was registered twice and the process has aborted.
C9_Witness == \E t \in Types : registrations[t] = 2 /\ aborted

Waiting(a) == \E t \in Types : InSeq(a, waiting_addresses[t])

\* C2. Drain completeness: if from some point on no new input arrives, then
\* pending_packets_count reaches zero (and stays there) and every worker
\* keeps seeing find_work return None.
C2_DrainCompleteness ==
    <>[](phase = "running" /\ ppc = "idle") =>
        /\ <>[](pending_packets_count = 0)
        /\ \A w \in Workers : []<>(pc[w] = "got_none")

\* C3. Fairness: every address pushed to waiting_addresses gets its executor
\* allocated, however many splittable addresses duplicable_executors holds.
C3_Fairness ==
    \A a \in Addresses : Waiting(a) ~> executor_keeper[a]

\* Executor instances bound to address a: those the workers hold and those
\* alloc_executor has built and not yet handed over.
Instances(a) ==
    Cardinality({w \in Workers : last_executor[w] = a})
    + Cardinality({w \in Workers :
                     /\ cur[w] = a
                     /\ pc[w] \in {"readd_inc", "readd_push", "alloc_ret",
                                   "fair_print"}})

C12_ExecutorCountBound ==
    \A t \in Types : LiveExecutors(t) <= ExecutorsMaxCount

Quiescent ==
    /\ ppc = "idle"
    /\ \A w \in Workers : pc[w] \in {"idle", "got_none", "run"}

SumQueues ==
    SumOver([a \in DOMAIN packets_map |-> Len(packets_map[a])],
            DOMAIN packets_map)

\* C14. Quiescent counter: whenever no add_input_packet and no find_work call
\* is in progress, pending_packets_count equals the sum of the lengths of
\* the input queues.
C14_QuiescentCounter == Quiescent => pending_packets_count = SumQueues

\* No worker runs an executor bound to address a or is allocating one.
NoInstance(a) ==
    \A w \in Workers : last_executor[w] # a /\ cur[w] # a

\* C15. Waiting-queue coverage: every address that has a queued packet and no
\* executor instance running for it is in the waiting_addresses queue of its
\* type.
C15_WaitingCoverage ==
    \A a \in DOMAIN packets_map :
        (packets_map[a] # <<>> /\ NoInstance(a)) => Waiting(a)

\* Number of entries of address a in the waiting queues.
CountWaiting(a) ==
    SumOver([t \in Types |-> CountIn(a, waiting_addresses[t])], Types)

C17_DuplicableUniqueness ==
    \A a \in Addresses : CountIn(a, duplicable_executors) <= 1

\* C17 witness: a worker has duplicated the executor of an address that
\* another worker runs, and that other worker, in the duplication path, has
\* just pushed the address back as its own.
C17_Witness ==
    \E w, v \in Workers :
        /\ w # v /\ last_executor[w] # None
        /\ last_executor[v] = last_executor[w]
        /\ pc[w] = "dup_len"
        /\ CountIn(last_executor[w], duplicable_executors) = 1

\* A worker in the duplication path holds the entry of address a that it
\* popped and has not yet pushed back or given up.
InDuplication(a) ==
    \E w \in Workers :
        /\ cur[w] = a
        /\ \/ pc[w] = "dup_own"
           \/ path[w] = "dup"

\* The weak address of a was pushed to duplicable_executors by the fairness
\* path: a's executor reports can_split and the push of line 330 is done.
Announced(a) ==
    /\ can_split(a) /\ executor_keeper[a]
    /\ ~\E w \in Workers :
           cur[w] = a /\ path[w] = "fair" /\ pc[w] = "alloc_ret"

\* C18. Duplicable-queue retention: an address announced as duplicable that
\* still resolves to a live instance stays in duplicable_executors, except
\* while a worker in the duplication path holds its entry.
C18_DuplicableRetention ==
    \A a \in Addresses :
        (Announced(a) /\ get_strong(a)) =>
            (InSeq(a, duplicable_executors) \/ InDuplication(a))

\* C19. Allocator convergence: for every address allocate_new_group is called
\* once, for the first instance, and never again; every instance beyond the
\* first is a clone made while the keeper slot holds the first.
C19_AllocatorConvergence ==
    \A a \in Addresses :
        /\ groups[a] = IF executor_keeper[a] THEN 1 ELSE 0
        /\ Instances(a) > 0 => groups[a] = 1

\* C19 witness: while the worker that built the first instance of an address
\* is still inside find_work, another worker has finished an allocation for
\* the same address on the duplication path, and the group was created once.
C19_Witness ==
    \E w, v \in Workers :
        /\ w # v /\ cur[w] # None /\ cur[v] = cur[w]
        /\ pc[w] = "fair_print" /\ path[w] = "fair"
        /\ pc[v] = "alloc_ret" /\ path[v] = "dup"
        /\ groups[cur[w]] = 1

C21_QueueFullRetry ==
    [][/\ (\E a \in Addresses : add_input_packet_inc(a)) =>
             /\ pending_packets_count' = pending_packets_count + 1
             /\ Queued(ppkt') = 0
             /\ UNCHANGED <<packets_map, waiting_addresses>>
       /\ add_input_packet_full =>
             UNCHANGED <<paddr, ppkt, packets_map, waiting_addresses,
                         pending_packets_count>>
       /\ add_input_packet_push =>
             /\ pending_packets_count' = pending_packets_count
             /\ Queued(ppkt) = 0
             /\ CountIn(ppkt, packets_map'[paddr]) = 1
             /\ \A a \in DOMAIN packets_map' \ {paddr} :
                   packets_map'[a] = packets_map[a]
             /\ \A a \in Addresses :
                   CountWaiting(a)' =
                     CountWaiting(a)
                     + (IF a = paddr /\ paddr \notin DOMAIN packets_map
                        THEN 1 ELSE 0)
       /\ (/\ ppc = "push" /\ ~aborted
           /\ ~(paddr \in DOMAIN packets_map /\ QueueFull(packets_map[paddr])))
             => ENABLED add_input_packet_push]_vars

\* C21 witness: the producer is retrying a push on the full queue of an
\* address whose executor a worker runs, and that worker is about to pop
\* from the queue.
C21_Witness ==
    \E w \in Workers :
        /\ ppc = "push" /\ paddr \in DOMAIN packets_map
        /\ QueueFull(packets_map[paddr])
        /\ ENABLED add_input_packet_full
        /\ last_executor[w] = paddr /\ pc[w] = "local"
        /\ CountWaiting(paddr) = 0

\* C22. Delivery matches binding: a packet that find_work returns goes to a
\* worker whose last_executor is set, and it was pushed with the address that
\* last_executor is bound to; every queue holds only packets pushed with the
\* address of its key.
C22_DeliveryMatchesBinding ==
    /\ \A w \in Workers :
          (pc[w] \in {"dec", "run"} /\ pkt[w] # 0) =>
              /\ last_executor[w] # None
              /\ queued_addr[pkt[w]] = last_executor[w]
    /\ \A a \in DOMAIN packets_map : \A i \in 1..Len(packets_map[a]) :
          queued_addr[packets_map[a][i]] = a

\* C22 witness: two workers bound to different addresses each hold a packet
\* that find_work returned, each pushed with the address of its worker.
C22_Witness ==
    \E w, v \in Workers :
        /\ pc[w] = "run" /\ pc[v] = "run"
        /\ pkt[w] # 0 /\ pkt[v] # 0
        /\ last_executor[w] # last_executor[v]
        /\ queued_addr[pkt[w]] = last_executor[w]
        /\ queued_addr[pkt[v]] = last_executor[v]

\* C23. Counter never underflows: pending_packets_count never wraps below
\* zero; it is at every moment at least the number of queued packets plus
\* the number of packets popped by the locality path and not yet subtracted,
\* since every packet is counted before it is pushed.
C23_NoUnderflow ==
    /\ pending_packets_count # U64Wrap
    /\ pending_packets_count >=
          SumQueues + Cardinality({w \in Workers : pc[w] = "dec"})

\* C23 witness: two packets went in, both were returned by find_work, and
\* the second decrement has brought the counter back to zero.
C23_Witness ==
    /\ pending_packets_count = 0 /\ packets_out >= 2
    /\ \E w \in Workers : pc[w] = "run" /\ pkt[w] # 0

\* C24. Fairness-path allocation never aborts: an address popped from
\* waiting_addresses has no instance yet, so its allocation builds a new
\* group, and if its type is MultipleCommonPacketUnits its queue holds a
\* packet when the opener is fetched; the unwrap of the fairness path never
\* fails.
C24_FairAllocation ==
    /\ \A w \in Workers :
          (path[w] = "fair" /\ pc[w] \in {"alloc_get", "alloc_call"}) =>
              /\ ~executor_keeper[cur[w]]
              /\ (/\ pc[w] = "alloc_get"
                  /\ executor_type_id(cur[w]) = "MultipleCommonPacketUnits")
                    => get_packet_from_addr(cur[w]) # 0
    /\ phase = "running" => ~aborted

\* C24 witness: a worker on the fairness path holds the opener it fetched
\* for a MultipleCommonPacketUnits address while the producer is inside
\* add_input_packet for the same address and the other worker is inside
\* find_work.
C24_Witness ==
    \E w, v \in Workers :
        /\ w # v /\ path[w] = "fair" /\ pc[w] = "alloc_call"
        /\ executor_type_id(cur[w]) = "MultipleCommonPacketUnits"
        /\ pkt[w] # 0
        /\ ppc = "push" /\ paddr = cur[w]
        /\ pc[v] \in {"local", "dup", "fair"}

\* The thread has left the loop of line 360.
LeftLoop(k) == t_pc[k] \in {"finalize", "done"}

\* Every input file was opened and the three queues are empty.
Drained ==
    /\ files_queue = <<>>
    /\ \A f \in 1..file_inputs : created[f] >= 1
    /\ process_queue = <<>> /\ reprocess_queue = <<>>

\* What holds of a thread outside the loop, and of the threads at the return.
DrainAtReturn ==
    /\ \A k \in Threads :
          LeftLoop(k) =>
              /\ files_queue = <<>>
              /\ get_valid_bucket(current_bucket) = NoBucket
              /\ t_bucket[k] = NoBucket /\ t_item[k] = NoItem
    /\ transform_phase = "returned" =>
          /\ Drained
          /\ \A k \in Threads :
                finalized[k] = IF t_pc[k] = "absent" THEN 0 ELSE 1

Allocating(sl) ==
    {k \in Threads : t_slot[k] = sl /\ t_pc[k] \in {"gcb_alloc", "gcb_new"}}

SlotOf(b) == IF b \in Files THEN "main" ELSE "resplit"

\* C26. Single current bucket: a thread runs the allocation function of a
\* slot only while it holds the slot's write lock and the slot's bucket is
\* absent or finished, so at most one thread allocates for a slot at a
\* time; every path is opened by at most one bucket; and every live
\* unfinished bucket is the current bucket of its slot, so all callers that
\* find one get the same.
C26_SingleCurrentBucket ==
    /\ \A sl \in Slots :
          /\ Cardinality(Allocating(sl)) <= 1
          /\ \A k \in Allocating(sl) :
                /\ write_lock[sl] = k
                /\ get_valid_bucket(CurrentOf(sl)) = NoBucket
    /\ \A b \in Buckets :
          /\ created[b] <= 1
          /\ (bucket_strong[b] # {} /\ ~is_finished(b)) =>
                CurrentOf(SlotOf(b)) = b
    /\ \A f \in 1..file_inputs :
          InSeq(f, files_queue)
          \/ created[f] = 1
          \/ \E k \in Threads : t_pc[k] = "gcb_new" /\ t_bucket[k] = f
    /\ \A k \in Threads :
          t_pc[k] \in {"read_bucket", "resplit_decode", "drop"} =>
              k \in bucket_strong[t_bucket[k]]

\* C26 witness: a thread is opening a new bucket for the main slot under the
\* write lock while the other thread, which saw the slot without a valid
\* bucket, waits for the write lock.
C26_Witness ==
    \E k, j \in Threads :
        /\ k # j
        /\ t_slot[k] = "main" /\ t_pc[k] = "gcb_new"
        /\ t_slot[j] = "main" /\ t_pc[j] = "gcb_write"
        /\ write_lock["main"] = k

====
